---- MODULE Spec2Model ----
(***************************************************************************)
(* Model of src/handler.py: the RunPod serverless handler and its bucket   *)
(* synchronisation routine download_models_from_gcs.                       *)
(*                                                                         *)
(* An object key is the sequence of its '/'-separated segments, which is   *)
(* str.split('/') of the key: "a/b" is <<"a","b">>, "/a" is <<"","a">>,    *)
(* "a/" is <<"a","">>, "a//b" is <<"a","","b">>.  A filesystem path is the *)
(* sequence of its components below "/".                                   *)
(***************************************************************************)
EXTENDS Integers, Sequences, FiniteSets, TLC

Procs == {1, 2}

\* ---------------------------------------------------------------- bounds
MaxBlobs == 2          \* objects in the bucket
MaxRuns == 2           \* invocations a worker serves, one after another

\* ---------------------------------------------------------------- inputs
\* Object keys of the bucket, in the order the store lists them (object
\* names in lexicographic order of their bytes: '.' < '/' < 'a' < 'b').
\* "../a", "/a", "a", "a/", "a/../b", "a//b", "a/b", "b"
KeyOrder ==
  << <<"..", "a">>, <<"", "a">>, <<"a">>, <<"a", "">>, <<"a", "..", "b">>,
     <<"a", "", "b">>, <<"a", "b">>, <<"b">> >>

\* The listings of the buckets of at most MaxBlobs objects: the increasing
\* selections of KeyOrder.
RECURSIVE Pick(_, _)
Pick(ix, from) ==
  IF from > Len(KeyOrder) THEN <<>>
  ELSE IF from \in ix THEN <<KeyOrder[from]>> \o Pick(ix, from + 1)
  ELSE Pick(ix, from + 1)

Buckets ==
  { Pick(ix, 1) : ix \in { s \in SUBSET (1..Len(KeyOrder)) : Cardinality(s) <= MaxBlobs } }

\* The bytes of the remote object stored under a key: distinct objects hold
\* distinct bytes.  A local file holds the sequence of chunks written to it.
RemoteContent(key) == <<key>>
Stale == <<"stale">>
Truncated == <<>>

\* ---------------------------------------------------------------- paths
ModelsDir == <<"runpod-volume", "models">>
DefaultBucket == "talking-head-models"

Parent(x) == IF x = <<>> THEN <<>> ELSE SubSeq(x, 1, Len(x) - 1)

\* blob.name.endswith('/')
EndsWithSlash(key) == Len(key) >= 2 /\ key[Len(key)] = ""

StartsWithSlash(key) == Len(key) >= 2 /\ key[1] = ""

\* Components pathlib keeps of a string: empty and "." segments are dropped,
\* ".." segments are kept.
NotDot(s) == s # "" /\ s # "."
Parts(key) == SelectSeq(key, NotDot)

\* models_dir / blob.name : an absolute right operand replaces the left one.
LocalPath(key) ==
  IF StartsWithSlash(key) THEN Parts(key) ELSE ModelsDir \o Parts(key)

\* ---------------------------------------------------------------- filesystem
\* d: the set of directories, f: function from file path to contents.
NoFiles == [x \in {} |-> <<>>]

\* Path resolution by the operating system, one component at a time from
\* the directory cur.
RECURSIVE Walk(_, _, _, _)
Walk(d, f, cur, parts) ==
  IF parts = <<>> THEN [err |-> "OK", at |-> cur]
  ELSE LET h == Head(parts)
           nxt == IF h = ".." THEN Parent(cur) ELSE Append(cur, h)
       IN  IF nxt \in d THEN Walk(d, f, nxt, Tail(parts))
           ELSE IF nxt \in DOMAIN f
                THEN IF Tail(parts) = <<>> THEN [err |-> "OK", at |-> nxt]
                     ELSE [err |-> "ENOTDIR", at |-> nxt]
           ELSE [err |-> "ENOENT", at |-> nxt]

Resolve(d, f, path) == Walk(d, f, <<>>, path)

\* Path.is_dir()
PathIsDir(d, f, path) ==
  LET w == Resolve(d, f, path) IN w.err = "OK" /\ w.at \in d

\* os.mkdir(path): the outcome and the directories afterwards.
OsMkdir(d, f, path) ==
  IF path = <<>> THEN [err |-> "EEXIST", d |-> d]
  ELSE LET w == Resolve(d, f, Parent(path))
           last == path[Len(path)]
       IN  IF w.err # "OK" THEN [err |-> w.err, d |-> d]
           ELSE IF w.at \notin d THEN [err |-> "ENOTDIR", d |-> d]
           ELSE IF last = ".." THEN [err |-> "EEXIST", d |-> d]
           ELSE LET target == Append(w.at, last)
                IN  IF target \in d \/ target \in DOMAIN f
                    THEN [err |-> "EEXIST", d |-> d]
                    ELSE [err |-> "OK", d |-> d \cup {target}]

\* Path.mkdir(parents=True, exist_ok=True)
RECURSIVE MkdirP(_, _, _)
MkdirP(d, f, path) ==
  LET r == OsMkdir(d, f, path)
  IN  IF r.err = "OK" THEN r
      ELSE IF r.err = "ENOENT"
           THEN IF Parent(path) = path THEN r
                ELSE LET up == MkdirP(d, f, Parent(path))
                     IN  IF up.err # "OK" THEN up
                         ELSE LET again == OsMkdir(up.d, f, path)
                              IN  IF again.err = "OK" THEN again
                                  ELSE IF again.err # "ENOENT" /\ PathIsDir(up.d, f, path)
                                       THEN [err |-> "OK", d |-> up.d]
                                       ELSE again
      ELSE IF PathIsDir(d, f, path) THEN [err |-> "OK", d |-> d]
      ELSE r

\* open(path, "wb"): the outcome and the file it creates or truncates.
OpenWrite(d, f, path) ==
  IF path = <<>> THEN [err |-> "EISDIR", at |-> <<>>]
  ELSE LET w == Resolve(d, f, Parent(path))
           last == path[Len(path)]
       IN  IF w.err # "OK" THEN [err |-> w.err, at |-> w.at]
           ELSE IF w.at \notin d THEN [err |-> "ENOTDIR", at |-> w.at]
           ELSE IF last = ".." THEN [err |-> "EISDIR", at |-> Parent(w.at)]
           ELSE LET target == Append(w.at, last)
                IN  IF target \in d THEN [err |-> "EISDIR", at |-> target]
                    ELSE [err |-> "OK", at |-> target]

\* The file's contents after the object's bytes are written to it: the
\* file is opened "wb", which truncates it.
\* (Variant: opened "ab", the bytes are appended to what the file held.)
WriteFileAppend(f, at, bytes) ==
  IF at \in DOMAIN f THEN (at :> (f[at] \o bytes)) @@ f ELSE (at :> bytes) @@ f
WriteFile(f, at, bytes) == (at :> bytes) @@ f

\* ---------------------------------------------------------------- payloads
\* A Python value: a dict (a function from keys to values), None or a str.
Dict(items) == [t |-> "dict", v |-> items]
EmptyDict == Dict([k \in {} |-> 0])
PyNone == [t |-> "NoneType"]

\* dict.get(key, default); on a value that is no dict it raises AttributeError.
HasGet(x) == x.t = "dict"
Get(x, key, default) == IF key \in DOMAIN x.v THEN x.v[key] ELSE default

Jobs ==
  { EmptyDict,
    Dict([input |-> EmptyDict]),
    Dict([input |-> Dict([action |-> "download_models"])]),
    Dict([input |-> Dict([action |-> "nvidia_smi"])]),
    Dict([input |-> PyNone]) }

\* GCP_CREDENTIALS in the environment: unset, empty, or a key document.
CredentialValues == {"<unset>", "", "key.json"}

\* not gcp_credentials
\* (Variant: gcp_credentials is None, which lets the empty string through.)
CredentialMissingNoneOnly(c) == c = "<unset>"
CredentialMissing(c) == c \in {"<unset>", ""}

\* nvidia-smi --query-gpu output: per line, the number of comma-separated
\* parts; a line describes a GPU when it has at least MinParts parts.
MinParts == 7
QueryOutputs == { <<1>>, <<7>>, <<7, 7>>, <<7, 6>>, <<6, 8>> }

\* gpu_details: one entry per line of at least MinParts parts, its gpu_id
\* the 0-based number of the line.
RECURSIVE GpuDetails(_, _)
GpuDetails(lines, i) ==
  IF i > Len(lines) THEN <<>>
  ELSE IF lines[i] >= MinParts THEN <<[gpu_id |-> i - 1]>> \o GpuDetails(lines, i + 1)
  ELSE GpuDetails(lines, i + 1)

\* ---------------------------------------------------------------- state
VARIABLES
  gcpCredentials,     \* os.environ["GCP_CREDENTIALS"]
  bucket,             \* the listing of the remote bucket
  dirs,               \* local directories
  files,              \* local files and their contents
  tmpFiles,           \* temporary credential files on disk (by name)
  nextTmp,            \* names NamedTemporaryFile has handed out
  appCreds,           \* os.environ["GOOGLE_APPLICATION_CREDENTIALS"], 0 unset
  pc,                 \* per invocation: position in the code
  job,                \* per invocation: the job payload
  credentials_path,   \* per invocation: the local of that name, 0 unbound
  client,             \* per invocation: credential file the client loaded
  blobs,              \* per invocation: the materialized listing
  idx,                \* per invocation: position of the for loop
  downloaded_files,   \* per invocation: the local of that name
  exc,                \* per invocation: the exception being handled
  result,             \* per invocation: the value returned
  created,            \* history: credential file this invocation created
  ops,                \* history: client, listing and per-object calls made
  start,              \* history: filesystem when the invocation began
  prev,               \* history: filesystem and result of the last return
  runs                \* invocations begun

vars ==
  << gcpCredentials, bucket, dirs, files, tmpFiles, nextTmp, appCreds, pc, job,
     credentials_path, client, blobs, idx, downloaded_files, exc, result,
     created, ops, start, prev, runs >>

config == << gcpCredentials, bucket >>
fsys == << dirs, files >>
locals == << credentials_path, client, blobs, idx, downloaded_files >>
hist == << created, ops, start, prev, runs >>

NoExc == [type |-> "none", step |-> "none"]
NoResult == [status |-> "none"]

\* The filesystems a worker starts with: the volume mounted and empty, or
\* holding the models directory with a file left by an earlier deployment.
InitialFs ==
  { [d |-> {<<>>, <<"runpod-volume">>}, f |-> NoFiles],
    [d |-> {<<>>, <<"runpod-volume">>, ModelsDir},
     f |-> (Append(ModelsDir, "a") :> Stale) @@ NoFiles] }

Init ==
  /\ gcpCredentials \in CredentialValues
  /\ bucket \in Buckets
  /\ \E fs \in InitialFs : dirs = fs.d /\ files = fs.f
  /\ tmpFiles = {}
  /\ nextTmp = 0
  /\ appCreds = 0
  /\ pc = [p \in Procs |-> "idle"]
  /\ job = [p \in Procs |-> EmptyDict]
  /\ credentials_path = [p \in Procs |-> 0]
  /\ client = [p \in Procs |-> 0]
  /\ blobs = [p \in Procs |-> <<>>]
  /\ idx = [p \in Procs |-> 1]
  /\ downloaded_files = [p \in Procs |-> <<>>]
  /\ exc = [p \in Procs |-> NoExc]
  /\ result = [p \in Procs |-> NoResult]
  /\ created = [p \in Procs |-> 0]
  /\ ops = [p \in Procs |-> <<>>]
  /\ start = [p \in Procs |-> [d |-> dirs, f |-> files]]
  /\ prev = [kind |-> "none", f |-> NoFiles, result |-> NoResult]
  /\ runs = 0

\* ---------------------------------------------------------------- results
\* What each except clause and each return statement builds.
\* An error description is the message text and the exception it formats.
ConfigError ==
  [status |-> "error",
   error |-> <<"GCP_CREDENTIALS environment variable not set", [type |-> "none", step |-> "none"]>>]

\* f"Failed to download models: {str(e)}"
DownloadError(e) == [status |-> "error", error |-> <<"Failed to download models: ", e>>]

\* message is f"Downloaded {len(downloaded_files)} files from {bucket_name}".
DownloadSuccess(paths) ==
  [status |-> "success",
   message |-> <<"Downloaded ", Len(paths), " files from ", DefaultBucket>>,
   downloaded_files |-> paths,
   models_directory |-> ModelsDir]

\* The except clauses of handler: CalledProcessError first, then Exception.
\* (Variant: without the second clause any other exception leaves handler.)
HandlerExceptSubprocessOnly(e, j) ==
  IF e.type = "CalledProcessError"
  THEN [status |-> "error", error_type |-> "subprocess_error",
        error |-> <<"Command failed: ", e>>]
  ELSE [status |-> "raised", exception |-> e]
HandlerExcept(e, j) ==
  IF e.type = "CalledProcessError"
  THEN [status |-> "error", error_type |-> "subprocess_error",
        error |-> <<"Command failed: ", e>>]
  ELSE [status |-> "error", error_type |-> "general_error", error |-> <<"", e>>,
        input_received |-> Get(j, "input", EmptyDict)]

Event(op, i, e) == [op |-> op, i |-> i, exc |-> e]

\* Where control goes when a statement of the try block of
\* download_models_from_gcs raises: its one except clause.
OnError(step) == "except"

\* Where control goes when the body of the for loop raises for blob i.
\* (Variant: the loop catches the exception and goes on to the next blob.)
OnBlobErrorContinue(i) == "loop"
OnBlobError(i) == "except"

Raise(p, e, to) ==
  /\ exc' = [exc EXCEPT ![p] = e]
  /\ pc' = [pc EXCEPT ![p] = to]

\* job_input.get("action") == "download_models"
JobIsDownload(j) ==
  /\ HasGet(Get(j, "input", EmptyDict))
  /\ Get(Get(j, "input", EmptyDict), "action", "<None>") = "download_models"

\* ---------------------------------------------------------------- handler
\* handler(job), lines 102-109: read the input and dispatch on its action.
Handler(p) ==
  /\ pc[p] = "idle"
  /\ runs < MaxRuns
  /\ \E j \in Jobs :
       /\ job' = [job EXCEPT ![p] = j]
       /\ LET job_input == Get(j, "input", EmptyDict)
          IN  IF ~HasGet(job_input)
              THEN /\ result' = [result EXCEPT ![p] =
                          HandlerExcept([type |-> "AttributeError", step |-> "job_input.get"], j)]
                   /\ pc' = [pc EXCEPT ![p] = "done"]
              ELSE /\ result' = [result EXCEPT ![p] = NoResult]
                   /\ pc' = [pc EXCEPT ![p] =
                          IF JobIsDownload(j) THEN "sync" ELSE "gpu"]
  /\ runs' = runs + 1
  /\ exc' = [exc EXCEPT ![p] = NoExc]
  /\ credentials_path' = [credentials_path EXCEPT ![p] = 0]
  /\ client' = [client EXCEPT ![p] = 0]
  /\ blobs' = [blobs EXCEPT ![p] = <<>>]
  /\ idx' = [idx EXCEPT ![p] = 1]
  /\ downloaded_files' = [downloaded_files EXCEPT ![p] = <<>>]
  /\ created' = [created EXCEPT ![p] = 0]
  /\ ops' = [ops EXCEPT ![p] = <<>>]
  /\ start' = [start EXCEPT ![p] = [d |-> dirs, f |-> files]]
  /\ UNCHANGED << config, fsys, tmpFiles, nextTmp, appCreds, prev >>

\* handler(job), lines 111-183: the two nvidia-smi calls, the parse of the
\* query output, the nvcc call, and the except clauses.
CommandOutcomes == {"ok", "CalledProcessError", "FileNotFoundError"}

GpuReport(p) ==
  /\ pc[p] = "gpu"
  /\ \E smi \in CommandOutcomes, query \in CommandOutcomes, lines \in QueryOutputs,
        nvcc \in {"release", "no release line", "fails"} :
       result' = [result EXCEPT ![p] =
         IF smi # "ok" THEN HandlerExcept([type |-> smi, step |-> "nvidia-smi"], job[p])
         ELSE IF query # "ok"
         THEN HandlerExcept([type |-> query, step |-> "nvidia-smi --query-gpu"], job[p])
         ELSE [status |-> "success",
               gpu_details |-> GpuDetails(lines, 1),
               gpu_count |-> Len(GpuDetails(lines, 1)),
               cuda_info |-> CASE nvcc = "release" -> "release line"
                               [] nvcc = "no release line" -> "Not available"
                               [] OTHER -> "NVCC not available",
               input_received |-> Get(job[p], "input", EmptyDict)]]
  /\ pc' = [pc EXCEPT ![p] = "done"]
  /\ UNCHANGED << config, fsys, tmpFiles, nextTmp, appCreds, job, locals, exc, hist >>

\* ---------------------------------------------------------------- sync
\* Lines 21-28: read the configuration; a missing credential returns.
CheckCredentials(p) ==
  /\ pc[p] = "sync"
  /\ IF CredentialMissing(gcpCredentials)
     THEN /\ result' = [result EXCEPT ![p] = ConfigError]
          /\ pc' = [pc EXCEPT ![p] = "done"]
     ELSE /\ pc' = [pc EXCEPT ![p] = "mkdir"]
          /\ UNCHANGED result
  /\ UNCHANGED << config, fsys, tmpFiles, nextTmp, appCreds, job, locals, exc, hist >>

\* Lines 31-32: models_dir.mkdir(parents=True, exist_ok=True).
MakeModelsDir(p) ==
  /\ pc[p] = "mkdir"
  /\ \E fault \in BOOLEAN :
       LET r == MkdirP(dirs, files, ModelsDir)
       IN  IF fault \/ r.err # "OK"
           THEN /\ Raise(p, [type |-> "OSError", step |-> "models_dir.mkdir",
                             errno |-> IF fault THEN "EACCES" ELSE r.err],
                         OnError("mkdir"))
                /\ UNCHANGED dirs
           ELSE /\ dirs' = r.d
                /\ pc' = [pc EXCEPT ![p] = "write"]
                /\ UNCHANGED exc
  /\ UNCHANGED << config, files, tmpFiles, nextTmp, appCreds, job, locals, result, hist >>

\* Lines 35-37: the with block.  NamedTemporaryFile creates the file; f.write
\* may raise (the text cannot be encoded, the disk is full) before
\* credentials_path is bound; closing the file may raise after it is bound.
WriteOutcomes == {"ok", "create fails", "write fails", "close fails"}

WriteCredentials(p) ==
  /\ pc[p] = "write"
  /\ \E o \in WriteOutcomes :
       LET name == nextTmp + 1
       IN  IF o = "create fails"
           THEN /\ Raise(p, [type |-> "OSError", step |-> "NamedTemporaryFile"], OnError("write"))
                /\ UNCHANGED << tmpFiles, nextTmp, credentials_path, created >>
           ELSE /\ tmpFiles' = tmpFiles \cup {name}
                /\ nextTmp' = name
                /\ created' = [created EXCEPT ![p] = name]
                /\ IF o = "write fails"
                   THEN /\ Raise(p, [type |-> "UnicodeEncodeError", step |-> "f.write"],
                                 OnError("write"))
                        /\ UNCHANGED credentials_path
                   ELSE /\ credentials_path' = [credentials_path EXCEPT ![p] = name]
                        /\ IF o = "close fails"
                           THEN Raise(p, [type |-> "OSError", step |-> "f.close"], OnError("write"))
                           ELSE /\ pc' = [pc EXCEPT ![p] = "setenv"]
                                /\ UNCHANGED exc
  /\ UNCHANGED << config, fsys, appCreds, job, client, blobs, idx, downloaded_files,
                  result, ops, start, prev, runs >>

\* Line 40: os.environ["GOOGLE_APPLICATION_CREDENTIALS"] = credentials_path.
SetEnv(p) ==
  /\ pc[p] = "setenv"
  /\ appCreds' = credentials_path[p]
  /\ pc' = [pc EXCEPT ![p] = "client"]
  /\ UNCHANGED << config, fsys, tmpFiles, nextTmp, job, locals, exc, result, hist >>

\* Lines 43-44: storage.Client() loads the credentials from the file the
\* environment variable names; it raises when that file is gone or the
\* service rejects the key.
NewClient(p) ==
  /\ pc[p] = "client"
  /\ \E fault \in BOOLEAN :
       LET e == [type |-> IF appCreds \notin tmpFiles THEN "DefaultCredentialsError"
                          ELSE "AuthenticationError",
                 step |-> "storage.Client"]
       IN  IF fault \/ appCreds \notin tmpFiles
           THEN /\ Raise(p, e, OnError("client"))
                /\ ops' = [ops EXCEPT ![p] = Append(@, Event("client", 0, e))]
                /\ UNCHANGED client
           ELSE /\ client' = [client EXCEPT ![p] = appCreds]
                /\ ops' = [ops EXCEPT ![p] = Append(@, Event("client", 0, NoExc))]
                /\ pc' = [pc EXCEPT ![p] = "list"]
                /\ UNCHANGED exc
  /\ UNCHANGED << config, fsys, tmpFiles, nextTmp, appCreds, job, credentials_path, blobs,
                  idx, downloaded_files, result, created, start, prev, runs >>

\* Lines 47-50: blobs = list(bucket.list_blobs()): the whole listing, or an
\* exception.
\* (Variant: the loop iterates over bucket.list_blobs() itself, so the first
\* object is handled before a later page of the listing fails.)
ListBlobsLazy(p) ==
  /\ pc[p] = "list"
  /\ \E fault \in BOOLEAN :
       LET e == [type |-> "ListingError", step |-> "list_blobs"]
           first == bucket[1]
           m == MkdirP(dirs, files, Parent(LocalPath(first)))
           w == OpenWrite(m.d, files, LocalPath(first))
           early == /\ bucket # <<>>
                    /\ ~EndsWithSlash(first)
                    /\ m.err = "OK"
                    /\ w.err = "OK"
       IN  IF fault
           THEN /\ Raise(p, e, OnError("list"))
                /\ IF early
                   THEN /\ dirs' = m.d
                        /\ files' = WriteFile(files, w.at, RemoteContent(first))
                        /\ ops' = [ops EXCEPT ![p] = @ \o
                             << Event("mkdir", 1, NoExc), Event("fetch", 1, NoExc),
                                Event("list", 0, e) >>]
                   ELSE /\ ops' = [ops EXCEPT ![p] = Append(@, Event("list", 0, e))]
                        /\ UNCHANGED fsys
                /\ UNCHANGED << blobs, idx >>
           ELSE /\ blobs' = [blobs EXCEPT ![p] = bucket]
                /\ idx' = [idx EXCEPT ![p] = 1]
                /\ ops' = [ops EXCEPT ![p] = Append(@, Event("list", 0, NoExc))]
                /\ pc' = [pc EXCEPT ![p] = "loop"]
                /\ UNCHANGED << exc, fsys >>
  /\ UNCHANGED << config, tmpFiles, nextTmp, appCreds, job, credentials_path, client,
                  downloaded_files, result, created, start, prev, runs >>

ListBlobs(p) ==
  /\ pc[p] = "list"
  /\ \E fault \in BOOLEAN :
       LET e == [type |-> "ListingError", step |-> "list_blobs"]
       IN  IF fault
           THEN /\ Raise(p, e, OnError("list"))
                /\ ops' = [ops EXCEPT ![p] = Append(@, Event("list", 0, e))]
                /\ UNCHANGED << blobs, idx >>
           ELSE /\ blobs' = [blobs EXCEPT ![p] = bucket]
                /\ idx' = [idx EXCEPT ![p] = 1]
                /\ ops' = [ops EXCEPT ![p] = Append(@, Event("list", 0, NoExc))]
                /\ pc' = [pc EXCEPT ![p] = "loop"]
                /\ UNCHANGED exc
  /\ UNCHANGED << config, fsys, tmpFiles, nextTmp, appCreds, job, credentials_path, client,
                  downloaded_files, result, created, start, prev, runs >>

\* Lines 53-66: one iteration of the for loop; idx is the position of the
\* loop's iterator, which has moved past the blob when the body runs.
\* blob.download_to_filename
\* opens the file for writing before it fetches; when the fetch fails the
\* library leaves the truncated file or removes it.
TransferOutcomes == {"ok", "mkdir fails", "fetch fails, file left", "fetch fails, file removed"}

Remove(f, at) == [x \in DOMAIN f \ {at} |-> f[x]]

DownloadBlob(p) ==
  /\ pc[p] = "loop"
  /\ idx[p] <= Len(blobs[p])
  /\ LET i == idx[p]
         blob == blobs[p][i]
         local_path == LocalPath(blob)
         m == MkdirP(dirs, files, Parent(local_path))
         mkdirExc(errno) == [type |-> "OSError", step |-> "local_path.parent.mkdir",
                             i |-> i, errno |-> errno]
         fetchExc(errno) == [type |-> "TransferError", step |-> "download_to_filename",
                             i |-> i, errno |-> errno]
     IN  IF EndsWithSlash(blob)
         THEN /\ idx' = [idx EXCEPT ![p] = i + 1]
              /\ UNCHANGED << fsys, downloaded_files, exc, pc, ops >>
         ELSE \E o \in TransferOutcomes :
                IF o = "mkdir fails" \/ m.err # "OK"
                THEN LET e == mkdirExc(IF m.err # "OK" THEN m.err ELSE "EACCES")
                     IN  /\ Raise(p, e, OnBlobError(i))
                         /\ ops' = [ops EXCEPT ![p] = Append(@, Event("mkdir", i, e))]
                         /\ idx' = [idx EXCEPT ![p] = i + 1]
                         /\ UNCHANGED << fsys, downloaded_files >>
                ELSE LET w == OpenWrite(m.d, files, local_path)
                     IN  /\ dirs' = m.d
                         /\ IF w.err # "OK"
                            THEN LET e == fetchExc(w.err)
                                 IN  /\ Raise(p, e, OnBlobError(i))
                                     /\ ops' = [ops EXCEPT ![p] =
                                          @ \o << Event("mkdir", i, NoExc), Event("fetch", i, e) >>]
                                     /\ idx' = [idx EXCEPT ![p] = i + 1]
                                     /\ UNCHANGED << files, downloaded_files >>
                            ELSE IF o # "ok"
                            THEN LET e == fetchExc("network")
                                 IN  /\ Raise(p, e, OnBlobError(i))
                                     /\ ops' = [ops EXCEPT ![p] =
                                          @ \o << Event("mkdir", i, NoExc), Event("fetch", i, e) >>]
                                     /\ idx' = [idx EXCEPT ![p] = i + 1]
                                     /\ files' = IF o = "fetch fails, file left"
                                                 THEN WriteFile(files, w.at, Truncated)
                                                 ELSE Remove(files, w.at)
                                     /\ UNCHANGED downloaded_files
                            ELSE /\ files' = WriteFile(files, w.at, RemoteContent(blob))
                                 /\ downloaded_files' =
                                      [downloaded_files EXCEPT ![p] = Append(@, local_path)]
                                 /\ ops' = [ops EXCEPT ![p] =
                                      @ \o << Event("mkdir", i, NoExc), Event("fetch", i, NoExc) >>]
                                 /\ idx' = [idx EXCEPT ![p] = i + 1]
                                 /\ UNCHANGED << exc, pc >>
  /\ UNCHANGED << config, tmpFiles, nextTmp, appCreds, job, credentials_path, client, blobs,
                  result, created, start, prev, runs >>

\* os.unlink(path): removes the file, or raises and leaves it.
Unlink(tmp, name) == tmp \ {name}

\* Lines 68-76: after the loop, delete the credentials file and return the
\* summary.  The unlink is inside the try block.
Cleanup(p) ==
  /\ pc[p] = "loop"
  /\ idx[p] > Len(blobs[p])
  /\ \E fault \in BOOLEAN :
       IF fault \/ credentials_path[p] \notin tmpFiles
       THEN /\ Raise(p, [type |-> "OSError", step |-> "os.unlink"], OnError("unlink"))
            /\ UNCHANGED << tmpFiles, result >>
       ELSE /\ tmpFiles' = Unlink(tmpFiles, credentials_path[p])
            /\ result' = [result EXCEPT ![p] = DownloadSuccess(downloaded_files[p])]
            /\ pc' = [pc EXCEPT ![p] = "done"]
            /\ UNCHANGED exc
  /\ UNCHANGED << config, fsys, nextTmp, appCreds, job, locals, hist >>

\* Lines 78-89: the except clause: unlink the credentials file when the
\* local is bound, ignoring a failure of the unlink, and return the error.
ExceptCleanup(p) ==
  /\ pc[p] = "except"
  /\ IF credentials_path[p] # 0
     THEN \E fault \in BOOLEAN :
            tmpFiles' = IF fault THEN tmpFiles ELSE Unlink(tmpFiles, credentials_path[p])
     ELSE UNCHANGED tmpFiles
  /\ result' = [result EXCEPT ![p] = DownloadError(exc[p])]
  /\ pc' = [pc EXCEPT ![p] = "done"]
  /\ UNCHANGED << config, fsys, nextTmp, appCreds, job, locals, exc, hist >>

\* The result goes back to the runtime, which may hand the worker a new job.
Return(p) ==
  /\ pc[p] = "done"
  /\ pc' = [pc EXCEPT ![p] = "idle"]
  /\ prev' = IF "downloaded_files" \in DOMAIN result[p]
              THEN [kind |-> "sync", f |-> files, result |-> result[p]]
              ELSE [kind |-> "other", f |-> NoFiles, result |-> NoResult]
  /\ UNCHANGED << config, fsys, tmpFiles, nextTmp, appCreds, job, locals, exc, result,
                  created, ops, start, runs >>

Step(p) ==
  \/ Handler(p)
  \/ GpuReport(p)
  \/ CheckCredentials(p)
  \/ MakeModelsDir(p)
  \/ WriteCredentials(p)
  \/ SetEnv(p)
  \/ NewClient(p)
  \/ ListBlobs(p)
  \/ DownloadBlob(p)
  \/ Cleanup(p)
  \/ ExceptCleanup(p)
  \/ Return(p)

\* A worker that serves one job at a time.
Next == Step(1)

Spec == Init /\ [][Next]_vars

\* A worker that serves two jobs concurrently, on a mounted volume and a
\* bucket of one object.
InitConc ==
  /\ Init
  /\ bucket \in { << <<"a">> >>, << <<"a", "">> >> }
  /\ ModelsDir \in dirs

NextConc == \E p \in Procs : Step(p)

SpecConc == InitConc /\ [][NextConc]_vars

\* ---------------------------------------------------------------- claims
Returned(p) == pc[p] = "done"
SyncReturned(p) == pc[p] = "done" /\ JobIsDownload(job[p])
Failed(ev) == ev.exc.type # "none"
PerObject(ev) == ev.op \in {"mkdir", "fetch"}
ReportedCount(r) == r.message[2]

\* The local location of destination_root/K, as the operating system
\* resolves that string.
DestPath(key) == ModelsDir \o Parts(key)
IsPrefix(a, b) == Len(a) <= Len(b) /\ SubSeq(b, 1, Len(a)) = a
Inside(x) == IsPrefix(ModelsDir, x)

\* C1: after any invocation of the sync returns, no temporary credential
\* file created during that invocation remains on disk.
C1_NoCredentialFileRemains ==
  \A p \in Procs : SyncReturned(p) => created[p] \notin tmpFiles

\* C2: a failure to delete the credential file is never the reported
\* outcome: no returned error describes the failure of os.unlink.
C2_DeletionFailureNeverReported ==
  \A p \in Procs :
    (SyncReturned(p) /\ result[p].status = "error") => result[p].error[2].step # "os.unlink"

\* C3: with GCP_CREDENTIALS unset or empty the sync returns the configuration
\* error, and up to its return makes no client, listing or transfer call,
\* creates no credential file and changes nothing in the filesystem.
C3_MissingCredentialShortCircuits ==
  \A p \in Procs :
    (pc[p] # "idle" /\ JobIsDownload(job[p]) /\ gcpCredentials \in {"<unset>", ""}) =>
      /\ pc[p] \in {"sync", "done"}
      /\ ops[p] = <<>>
      /\ created[p] = 0
      /\ tmpFiles = {}
      /\ dirs = start[p].d
      /\ files = start[p].f
      /\ pc[p] = "done" => /\ result[p].status = "error"
                           /\ result[p].error[1] = "GCP_CREDENTIALS environment variable not set"

C3_Witness ==
  \E p \in Procs :
    /\ SyncReturned(p)
    /\ gcpCredentials = ""
    /\ result[p].status = "error"
    /\ ModelsDir \notin dirs

\* C4: each invocation's client is built from the credential file that
\* invocation created, and no invocation fails because its credential file
\* is gone.
C4_ClientUsesOwnCredential ==
  \A p \in Procs :
    /\ client[p] # 0 => client[p] = created[p]
    /\ exc[p].type # "DefaultCredentialsError"

\* C5: after a successful sync every listed key K that does not end in '/'
\* has a local file at destination_root/K holding the remote object's bytes,
\* no call was made for a key ending in '/', and the reported paths are
\* destination_root/K for those keys in listing order, the count their number.
RECURSIVE ExpectedPaths(_)
ExpectedPaths(listing) ==
  IF listing = <<>> THEN <<>>
  ELSE IF EndsWithSlash(Head(listing)) THEN ExpectedPaths(Tail(listing))
  ELSE <<DestPath(Head(listing))>> \o ExpectedPaths(Tail(listing))

C5_MirrorsBucket ==
  \A p \in Procs :
    (SyncReturned(p) /\ result[p].status = "success") =>
      /\ \A i \in 1..Len(bucket) :
           IF EndsWithSlash(bucket[i])
           THEN \A j \in 1..Len(ops[p]) : ops[p][j].i # i
           ELSE LET w == Resolve(dirs, files, DestPath(bucket[i]))
                IN  /\ w.err = "OK"
                    /\ w.at \in DOMAIN files
                    /\ files[w.at] = RemoteContent(bucket[i])
      /\ result[p].downloaded_files = ExpectedPaths(bucket)
      /\ ReportedCount(result[p]) = Len(ExpectedPaths(bucket))

\* C6: every directory and file the sync creates or overwrites for an object
\* lies inside the tree rooted at destination_root.
C6_WritesStayInsideRoot ==
  \A p \in Procs :
    pc[p] # "idle" =>
      /\ \A x \in dirs \ start[p].d : Inside(x) \/ IsPrefix(x, ModelsDir)
      /\ \A x \in DOMAIN files :
           (x \notin DOMAIN start[p].f \/ files[x] # start[p].f[x]) => Inside(x)
      /\ \A x \in DOMAIN start[p].f : x \in DOMAIN files \/ Inside(x)

\* C7: once the handling of one object fails nothing further is attempted,
\* and the invocation returns the one error result that describes that
\* failure.
C7_TransferFailureAborts ==
  \A p \in Procs :
    LET o == ops[p]
    IN  /\ \A j \in 1..Len(o) : (PerObject(o[j]) /\ Failed(o[j])) => j = Len(o)
        /\ (Returned(p) /\ o # <<>> /\ PerObject(o[Len(o)]) /\ Failed(o[Len(o)])) =>
             /\ result[p].status = "error"
             /\ result[p].error = <<"Failed to download models: ", o[Len(o)].exc>>

C7_Witness ==
  \E p \in Procs :
    /\ Returned(p)
    /\ ops[p] # <<>>
    /\ LET last == ops[p][Len(ops[p])]
       IN  /\ last.op = "fetch"
           /\ Failed(last)
           /\ last.i < Len(blobs[p])
           /\ ~EndsWithSlash(blobs[p][last.i + 1])
    /\ result[p].status = "error"

\* C8: no per-object directory creation or transfer happens before the
\* listing has returned successfully; when the client construction or the
\* listing fails the result is an error and no file has been written.
C8_ListingBeforeDownloads ==
  \A p \in Procs :
    LET o == ops[p]
    IN  /\ \A j \in 1..Len(o) :
             PerObject(o[j]) => \E k \in 1..(j - 1) : o[k].op = "list" /\ ~Failed(o[k])
        /\ (SyncReturned(p) /\ o # <<>> /\ ~PerObject(o[Len(o)]) /\ Failed(o[Len(o)])) =>
             /\ result[p].status = "error"
             /\ files = start[p].f

C8_Witness ==
  \E p \in Procs :
    /\ SyncReturned(p)
    /\ ops[p] # <<>>
    /\ ops[p][Len(ops[p])].op = "list"
    /\ Failed(ops[p][Len(ops[p])])
    /\ \E i \in 1..Len(bucket) : ~EndsWithSlash(bucket[i])
    /\ result[p].status = "error"

\* C9: whatever the job and whichever step fails, the handler returns a
\* result whose status is "success" or "error", with a description when it
\* is "error"; no exception reaches the caller.
C9_AlwaysStructuredResult ==
  \A p \in Procs :
    Returned(p) =>
      /\ result[p].status \in {"success", "error"}
      /\ result[p].status = "error" => "error" \in DOMAIN result[p]

C9_Witness ==
  \E p \in Procs :
    /\ Returned(p)
    /\ ~HasGet(Get(job[p], "input", EmptyDict))
    /\ result[p].status = "error"
    /\ result[p].error[2].type = "AttributeError"

\* C10: a successful sync that follows a successful sync of the same bucket
\* leaves the same local file contents and reports the same count and the
\* same list of written paths.
C10_ResyncIdempotent ==
  \A p \in Procs :
    (SyncReturned(p) /\ result[p].status = "success" /\ prev.kind = "sync") =>
      /\ files = prev.f
      /\ ReportedCount(result[p]) = ReportedCount(prev.result)
      /\ result[p].downloaded_files = prev.result.downloaded_files

C10_Witness ==
  \E p \in Procs :
    /\ SyncReturned(p)
    /\ result[p].status = "success"
    /\ prev.kind = "sync"
    /\ Len(result[p].downloaded_files) = MaxBlobs
    /\ \E x \in DOMAIN files : x \in DOMAIN start[p].f /\ files[x] = start[p].f[x]

====
